---- MODULE Spec2Model ----
(***************************************************************************)
(* Model of pyoxidizer/src/pyembed/pystr.rs: the owning handle OwnedPyStr  *)
(* around a buffer allocated by the Python runtime, and the conversions of *)
(* OS-native strings into Python str / bytes objects.                      *)
(*                                                                         *)
(* The third part models pyoxidizer/src/cli.rs: starlark_vars and the      *)
(* dispatch of run_cli.                                                    *)
(*                                                                         *)
(* Three specifications share the variables:                               *)
(*   Spec      the life cycle of OwnedPyStr handles (From, as_wchar_ptr,   *)
(*             Drop) against the runtime's raw allocator;                  *)
(*   SpecConv  one call of osstring_to_str / osstring_to_bytes, on either  *)
(*             target family, for every host string of a bounded set;      *)
(*   SpecCli   one run of run_cli for every parsed command line and        *)
(*             environment of a bounded set.                               *)
(* The runtime primitives reached through python3_sys (pyffi) are          *)
(* modelled at their call sites by their documented C-API behaviour.       *)
(***************************************************************************)
EXTENDS Integers, Sequences, FiniteSets, TLC

\* Bounds of the model.
MaxHandles == 3     \* handles constructed in one run
MaxAddr    == 3     \* addresses the runtime's raw allocator can hand out
MaxStrLen  == 2     \* length of a &str given to OwnedPyStr::from
MaxLen     == 3     \* length (in units) of a host OsString
MaxPairs   == 2     \* occurrences of --var, and of --var-env, on a command line

\* std::ptr::null_mut(): the null pointer.
NULL == 0

Addr == 1..MaxAddr

VARIABLES
    handles,      \* every OwnedPyStr constructed so far: [state, data]
    heap,         \* addresses currently allocated by the runtime's raw allocator
    allocLog,     \* pointers returned by successful Py_DecodeLocale calls, in order
    freeLog,      \* pointers passed to PyMem_RawFree, in order
    badFree,      \* some PyMem_RawFree call got a non-null pointer that was not allocated
    decodeCalls,  \* number of Py_DecodeLocale calls made
    held,         \* raw pointers callers obtained from as_wchar_ptr: [h, ptr]
    status,       \* "running", or "panicked" once a constructor panicked
    fromCall,     \* the latest call of OwnedPyStr::from
    cIn,          \* the host string given to a conversion
    cOut,         \* what the conversion did with it
    cli,          \* the parsed command line and the environment run_cli is given
    run           \* how far run_cli got, what it invoked, and its result

hvars == <<handles, heap, allocLog, freeLog, badFree, decodeCalls, held, status, fromCall>>
cvars == <<cIn, cOut>>
clivars == <<cli, run>>
vars  == <<handles, heap, allocLog, freeLog, badFree, decodeCalls, held, status, fromCall,
           cIn, cOut, cli, run>>

RECURSIVE SeqsUpTo(_, _)
\* All sequences over S of length at most n.
SeqsUpTo(S, n) ==
    IF n = 0 THEN { <<>> }
    ELSE LET shorter == SeqsUpTo(S, n - 1)
         IN  shorter \cup { Append(q, x) : q \in shorter, x \in S }

(***************************************************************************)
(* OwnedPyStr                                                              *)
(***************************************************************************)

\* Bytes a &str argument is built from: NUL and an ASCII letter.
StrBytes == {0, 97}
Strs == SeqsUpTo(StrBytes, MaxStrLen)

HasNul(s) == \E i \in 1..Len(s) : s[i] = 0

\* CString::new: an error when the bytes hold a NUL, else the bytes with a
\* terminating NUL appended.
CString_new(s) ==
    IF HasNul(s) THEN [ok |-> FALSE, bytes |-> <<>>]
    ELSE [ok |-> TRUE, bytes |-> Append(s, 0)]

\* Py_DecodeLocale: null on failure (a decoding error, or no memory), else a
\* buffer from the raw allocator, which is never one that is still allocated.
Py_DecodeLocale(live) == {NULL} \cup (Addr \ live)

\* A faulty variant of OwnedPyStr_from: the pointer of the &str is handed to
\* Py_DecodeLocale without building a CString, so a NUL is not detected.
OwnedPyStr_from_NoCString(s, rt) ==
    IF rt = NULL
    THEN [called |-> TRUE, ptr |-> rt, outcome |-> "panic_null", data |-> NULL]
    ELSE [called |-> TRUE, ptr |-> rt, outcome |-> "ok", data |-> rt]

\* A faulty variant of OwnedPyStr_from: the result of Py_DecodeLocale is not checked.
OwnedPyStr_from_NoNullCheck(s, rt) ==
    IF ~CString_new(s).ok
    THEN [called |-> FALSE, ptr |-> NULL, outcome |-> "panic_nul", data |-> NULL]
    ELSE [called |-> TRUE, ptr |-> rt, outcome |-> "ok", data |-> rt]

\* impl From<&str> for OwnedPyStr, as a function of the string and of rt, the
\* value Py_DecodeLocale returns when it is called: whether the primitive is
\* called, what it returned, how the constructor ends, and the handle's data.
OwnedPyStr_from(s, rt) ==
    IF ~CString_new(s).ok
    THEN [called |-> FALSE, ptr |-> NULL, outcome |-> "panic_nul", data |-> NULL]
    ELSE IF rt = NULL
    THEN [called |-> TRUE, ptr |-> rt, outcome |-> "panic_null", data |-> NULL]
    ELSE [called |-> TRUE, ptr |-> rt, outcome |-> "ok", data |-> rt]

\* A faulty variant of as_wchar_ptr: the address after the buffer's first unit.
as_wchar_ptr_Offset(self) == self.data + 1

\* OwnedPyStr::as_wchar_ptr: a copy of the raw pointer.
as_wchar_ptr(self) == self.data

\* PyMem_RawFree(p): releases p; a null p is a no-op of the allocator.
PyMem_RawFree(p) ==
    /\ heap' = heap \ {p}
    /\ freeLog' = Append(freeLog, p)
    /\ badFree' = (badFree \/ (p # NULL /\ p \notin heap))

\* OwnedPyStr::from(s) called by the program.
From(s) ==
    /\ status = "running"
    /\ Len(handles) < MaxHandles
    /\ \E rt \in Py_DecodeLocale(heap) :
         LET r == OwnedPyStr_from(s, rt)
             allocated == r.called /\ rt # NULL
         IN  /\ fromCall' = [n |-> fromCall.n + 1, s |-> s, called |-> r.called,
                             ptr |-> r.ptr, outcome |-> r.outcome]
             /\ decodeCalls' = decodeCalls + (IF r.called THEN 1 ELSE 0)
             /\ allocLog' = IF allocated THEN Append(allocLog, rt) ELSE allocLog
             /\ heap' = IF allocated THEN heap \cup {rt} ELSE heap
             /\ handles' = IF r.outcome = "ok"
                           THEN Append(handles, [state |-> "Alive", data |-> r.data])
                           ELSE handles
             /\ status' = IF r.outcome = "ok" THEN "running" ELSE "panicked"
    /\ UNCHANGED <<freeLog, badFree, held, cIn, cOut, cli, run>>

\* A caller reads the raw pointer of a handle it owns.
Borrow(h) ==
    /\ h \in 1..Len(handles)
    /\ handles[h].state = "Alive"
    /\ held' = held \cup { [h |-> h, ptr |-> as_wchar_ptr(handles[h])] }
    /\ UNCHANGED <<handles, heap, allocLog, freeLog, badFree, decodeCalls, status,
                   fromCall, cIn, cOut, cli, run>>

\* A faulty variant of Drop: the handle goes away without releasing its buffer.
Drop_Leak(h) ==
    /\ h \in 1..Len(handles)
    /\ handles[h].state = "Alive"
    /\ handles' = [handles EXCEPT ![h].state = "Freed"]
    /\ UNCHANGED <<heap, allocLog, freeLog, badFree, decodeCalls, held, status,
                   fromCall, cIn, cOut, cli, run>>

\* impl Drop for OwnedPyStr: runs once for a handle, when its owner lets it go
\* (in normal execution, or while a panic unwinds).
Drop(h) ==
    /\ h \in 1..Len(handles)
    /\ handles[h].state = "Alive"
    /\ PyMem_RawFree(handles[h].data)
    /\ handles' = [handles EXCEPT ![h].state = "Freed"]
    /\ UNCHANGED <<allocLog, decodeCalls, held, status, fromCall, cIn, cOut, cli, run>>

(***************************************************************************)
(* Host strings and runtime objects                                        *)
(***************************************************************************)

\* Byte values of a unix host string: NUL, 'a', the UTF-8 pair C3 A9 (e
\* acute), and FF, which no encoding of text uses.
ByteVals == {0, 97, 169, 195, 255}
\* 16-bit units of a windows host string: zero, 'a', a high and a low surrogate.
UnitVals == {0, 97, 55296, 56320}

UnixStrings == SeqsUpTo(ByteVals, MaxLen)
WideStrings == SeqsUpTo(UnitVals, MaxLen)

\* The locale the runtime decodes with.
Locales == {"UTF-8", "C"}

IsHighSurrogate(u) == 55296 <= u /\ u <= 56319
IsLowSurrogate(u)  == 56320 <= u /\ u <= 57343

RECURSIVE Utf16Decode(_)
\* 16-bit units to code points: a high surrogate followed by a low one makes
\* one supplementary code point, any other unit is kept as it is.
Utf16Decode(w) ==
    IF w = <<>> THEN <<>>
    ELSE IF Len(w) >= 2 /\ IsHighSurrogate(w[1]) /\ IsLowSurrogate(w[2])
    THEN <<65536 + (w[1] - 55296) * 1024 + (w[2] - 56320)>>
            \o Utf16Decode(SubSeq(w, 3, Len(w)))
    ELSE <<w[1]>> \o Utf16Decode(Tail(w))

RECURSIVE Utf16Encode(_)
\* Code points to 16-bit units: a supplementary code point makes a pair.
Utf16Encode(cps) ==
    IF cps = <<>> THEN <<>>
    ELSE (IF cps[1] >= 65536
          THEN <<55296 + ((cps[1] - 65536) \div 1024), 56320 + ((cps[1] - 65536) % 1024)>>
          ELSE <<cps[1]>>) \o Utf16Encode(Tail(cps))

\* A windows OsString holds the code points of the units the system gave
\* (WTF-8: surrogate pairs joined, lone surrogates kept).
OsString_from_wide(w) == Utf16Decode(w)

\* OsStrExt::encode_wide (windows): the string's 16-bit units.
encode_wide(s) == Utf16Encode(s)

\* OsStrExt::as_bytes (unix): a unix OsString is its bytes.
as_bytes(s) == s

\* Objects of the runtime, by content; NullObj is the null PyObject pointer
\* and NoObj stands for "nothing was returned".
PyStr(cps)  == [kind |-> "str", val |-> cps]
PyBytes(bs) == [kind |-> "bytes", val |-> bs]
NullObj     == [kind |-> "null", val |-> <<>>]
NoObj       == [kind |-> "none", val |-> <<>>]

RECURSIVE LocaleDecode(_, _)
\* The runtime's locale decoder with the surrogateescape policy: a byte (or
\* byte sequence) the locale cannot decode becomes DC00 + byte. In the UTF-8
\* locale the two-byte forms C2..DF 80..BF decode to 80..7FF; in the C locale
\* only ASCII decodes.
LocaleDecode(b, loc) ==
    IF b = <<>> THEN <<>>
    ELSE IF b[1] < 128 THEN <<b[1]>> \o LocaleDecode(Tail(b), loc)
    ELSE IF /\ loc = "UTF-8"
            /\ 194 <= b[1] /\ b[1] <= 223
            /\ Len(b) >= 2 /\ 128 <= b[2] /\ b[2] <= 191
    THEN <<(b[1] - 192) * 64 + (b[2] - 128)>> \o LocaleDecode(SubSeq(b, 3, Len(b)), loc)
    ELSE <<56320 + b[1]>> \o LocaleDecode(Tail(b), loc)

IsEscape(cp) == 56448 <= cp /\ cp <= 56575

RECURSIVE LocaleEncode(_, _)
\* The reverse of LocaleDecode (the runtime's locale encoder with the
\* surrogateescape policy): an escape DC80..DCFF gives back its byte;
\* -1 marks a code point the locale cannot encode.
LocaleEncode(cps, loc) ==
    IF cps = <<>> THEN <<>>
    ELSE (IF cps[1] < 128 THEN <<cps[1]>>
          ELSE IF IsEscape(cps[1]) THEN <<cps[1] - 56320>>
          ELSE IF loc = "UTF-8" /\ cps[1] < 2048
          THEN <<192 + (cps[1] \div 64), 128 + (cps[1] % 64)>>
          ELSE <<-1>>) \o LocaleEncode(Tail(cps), loc)

\* PyUnicode_DecodeLocaleAndSize(str, len, errors): null when the runtime has
\* no memory, when errors is neither "strict" nor "surrogateescape", when
\* str[len] is not the terminator or a NUL lies before it, and under "strict"
\* when a byte cannot be decoded; else the decoded str object.
PyUnicode_DecodeLocaleAndSize(mem, len, errors, loc, oom) ==
    IF oom \/ errors \notin {"strict", "surrogateescape"} THEN NullObj
    ELSE IF len < 0 \/ len >= Len(mem) \/ mem[len + 1] # 0 \/ HasNul(SubSeq(mem, 1, len))
    THEN NullObj
    ELSE LET cps == LocaleDecode(SubSeq(mem, 1, len), loc)
         IN  IF errors = "strict" /\ \E i \in 1..Len(cps) : IsEscape(cps[i])
             THEN NullObj
             ELSE PyStr(cps)

\* PyUnicode_FromWideChar(w, size) with a 16-bit wchar_t: the str object of
\* the first size units, surrogate pairs joined, nothing validated.
PyUnicode_FromWideChar(w, size, oom) ==
    IF oom \/ size < 0 \/ size > Len(w) THEN NullObj
    ELSE PyStr(Utf16Decode(SubSeq(w, 1, size)))

\* The reverse of PyUnicode_FromWideChar (PyUnicode_AsWideChar with a 16-bit
\* wchar_t): the units of a str object.
PyUnicode_AsWideChar(o) == Utf16Encode(o.val)

\* PyBytes_FromStringAndSize(v, len): the bytes object of the first len bytes.
PyBytes_FromStringAndSize(mem, len, oom) ==
    IF oom \/ len < 0 \/ len > Len(mem) THEN NullObj
    ELSE PyBytes(SubSeq(mem, 1, len))

RECURSIVE U16Mem(_)
\* The memory of a Vec<u16> read as bytes (`w.as_ptr() as *const i8`): each
\* unit's low byte, then its high byte (the windows targets are little-endian).
U16Mem(w) ==
    IF w = <<>> THEN <<>>
    ELSE <<w[1] % 256, w[1] \div 256>> \o U16Mem(Tail(w))

\* PyObject::from_owned_ptr(py, o): wraps o without a check. A null o is
\* undefined behaviour: a build with debug assertions panics, another build
\* hands the caller a PyObject around the null pointer.
from_owned_ptr(o) ==
    IF o = NullObj
    THEN { [outcome |-> "panic", obj |-> NoObj], [outcome |-> "returned", obj |-> NullObj] }
    ELSE { [outcome |-> "returned", obj |-> o] }

\* What a conversion did: the foreign calls it made, what the primitive
\* returned, and each way the call can end.
Results(calls, prim) ==
    { [calls |-> calls, prim |-> prim, outcome |-> e.outcome, obj |-> e.obj] :
        e \in from_owned_ptr(prim) }

\* One foreign call: the primitive, the buffer and length given, the policy.
Call(fn, buf, len, errors) == [fn |-> fn, buf |-> buf, len |-> len, errors |-> errors]

(***************************************************************************)
(* osstring_to_str, osstring_to_bytes                                      *)
(***************************************************************************)

\* CStr::to_bytes: the bytes without the terminator.
to_bytes(c) == SubSeq(c, 1, Len(c) - 1)

\* const SURROGATEESCAPE
SURROGATEESCAPE == "surrogateescape"

\* A faulty variant of osstring_to_str_unix: the decoder is called with "strict".
osstring_to_str_unix_Strict(s, loc, oom) ==
    LET b == CString_new(as_bytes(s))
    IN  IF ~b.ok
        THEN { [calls |-> <<>>, prim |-> NoObj, outcome |-> "panic_nul", obj |-> NoObj] }
        ELSE Results(<<Call("PyUnicode_DecodeLocaleAndSize", b.bytes,
                            Len(to_bytes(b.bytes)), "strict")>>,
                     PyUnicode_DecodeLocaleAndSize(b.bytes, Len(to_bytes(b.bytes)),
                                                   "strict", loc, oom))

\* A faulty variant of osstring_to_str_unix: the bytes are handed over with a
\* terminator appended but no check for a NUL inside them.
osstring_to_str_unix_NoCString(s, loc, oom) ==
    LET mem == Append(as_bytes(s), 0)
    IN  Results(<<Call("PyUnicode_DecodeLocaleAndSize", mem, Len(as_bytes(s)),
                       SURROGATEESCAPE)>>,
                PyUnicode_DecodeLocaleAndSize(mem, Len(as_bytes(s)), SURROGATEESCAPE,
                                              loc, oom))

\* osstring_to_str (unix).
osstring_to_str_unix(s, loc, oom) ==
    LET b == CString_new(as_bytes(s))
    IN  IF ~b.ok
        THEN { [calls |-> <<>>, prim |-> NoObj, outcome |-> "panic_nul", obj |-> NoObj] }
        ELSE Results(<<Call("PyUnicode_DecodeLocaleAndSize", b.bytes,
                            Len(to_bytes(b.bytes)), SURROGATEESCAPE)>>,
                     PyUnicode_DecodeLocaleAndSize(b.bytes, Len(to_bytes(b.bytes)),
                                                   SURROGATEESCAPE, loc, oom))

\* String::from_utf16_lossy on the units: a lone surrogate becomes U+FFFD.
Lossy(w) ==
    LET cps == Utf16Decode(w)
    IN  Utf16Encode([i \in 1..Len(cps) |->
                        IF IsHighSurrogate(cps[i]) \/ IsLowSurrogate(cps[i])
                        THEN 65533 ELSE cps[i]])

\* A faulty variant of osstring_to_str_windows: the string goes through a lossy
\* conversion to valid UTF-16 first.
osstring_to_str_windows_Lossy(s, oom) ==
    LET w == Lossy(encode_wide(s))
    IN  Results(<<Call("PyUnicode_FromWideChar", w, Len(w), "")>>,
                PyUnicode_FromWideChar(w, Len(w), oom))

\* osstring_to_str (windows).
osstring_to_str_windows(s, oom) ==
    LET w == encode_wide(s)
    IN  Results(<<Call("PyUnicode_FromWideChar", w, Len(w), "")>>,
                PyUnicode_FromWideChar(w, Len(w), oom))

\* A faulty variant of osstring_to_bytes_unix: the bytes go through a CString.
osstring_to_bytes_unix_CString(s, oom) ==
    LET b == CString_new(as_bytes(s))
    IN  IF ~b.ok
        THEN { [calls |-> <<>>, prim |-> NoObj, outcome |-> "panic_nul", obj |-> NoObj] }
        ELSE Results(<<Call("PyBytes_FromStringAndSize", b.bytes, Len(to_bytes(b.bytes)), "")>>,
                     PyBytes_FromStringAndSize(b.bytes, Len(to_bytes(b.bytes)), oom))

\* osstring_to_bytes (unix).
osstring_to_bytes_unix(s, oom) ==
    LET b == as_bytes(s)
    IN  Results(<<Call("PyBytes_FromStringAndSize", b, Len(b), "")>>,
                PyBytes_FromStringAndSize(b, Len(b), oom))

\* A faulty variant of osstring_to_bytes_windows: the length is the number of units.
osstring_to_bytes_windows_UnitLen(s, oom) ==
    LET w == encode_wide(s)
    IN  Results(<<Call("PyBytes_FromStringAndSize", U16Mem(w), Len(w), "")>>,
                PyBytes_FromStringAndSize(U16Mem(w), Len(w), oom))

\* osstring_to_bytes (windows).
osstring_to_bytes_windows(s, oom) ==
    LET w == encode_wide(s)
    IN  Results(<<Call("PyBytes_FromStringAndSize", U16Mem(w), Len(w) * 2, "")>>,
                PyBytes_FromStringAndSize(U16Mem(w), Len(w) * 2, oom))

\* The call of a conversion ends as r, with the runtime out of memory or not.
Record(op, r, oom) ==
    cOut' = [op |-> op, calls |-> r.calls, prim |-> r.prim, outcome |-> r.outcome,
             obj |-> r.obj, oom |-> oom]

StrUnix ==
    /\ cOut.op = "none"
    /\ cIn.family = "unix"
    /\ \E oom \in BOOLEAN :
         \E r \in osstring_to_str_unix(cIn.os, cIn.locale, oom) : Record("str_unix", r, oom)
    /\ UNCHANGED <<handles, heap, allocLog, freeLog, badFree, decodeCalls, held, status,
                   fromCall, cIn, cli, run>>

StrWindows ==
    /\ cOut.op = "none"
    /\ cIn.family = "windows"
    /\ \E oom \in BOOLEAN :
         \E r \in osstring_to_str_windows(cIn.os, oom) : Record("str_windows", r, oom)
    /\ UNCHANGED <<handles, heap, allocLog, freeLog, badFree, decodeCalls, held, status,
                   fromCall, cIn, cli, run>>

BytesUnix ==
    /\ cOut.op = "none"
    /\ cIn.family = "unix"
    /\ \E oom \in BOOLEAN :
         \E r \in osstring_to_bytes_unix(cIn.os, oom) : Record("bytes_unix", r, oom)
    /\ UNCHANGED <<handles, heap, allocLog, freeLog, badFree, decodeCalls, held, status,
                   fromCall, cIn, cli, run>>

BytesWindows ==
    /\ cOut.op = "none"
    /\ cIn.family = "windows"
    /\ \E oom \in BOOLEAN :
         \E r \in osstring_to_bytes_windows(cIn.os, oom) : Record("bytes_windows", r, oom)
    /\ UNCHANGED <<handles, heap, allocLog, freeLog, badFree, decodeCalls, held, status,
                   fromCall, cIn, cli, run>>


(***************************************************************************)
(* cli.rs: starlark_vars and run_cli                                       *)
(***************************************************************************)

\* Option<String>
Some(v) == [some |-> TRUE, val |-> v]
None    == [some |-> FALSE, val |-> ""]

\* Names and values given with --var / --var-env, and environment variables.
VarNames  == {"a", "b"}
VarValues == {"x"}
EnvNames  == {"E", "F"}

\* An environment variable is not set, set to Unicode text, or set to a value
\* that is not valid Unicode.
EnvUnset      == [set |-> FALSE, unicode |-> FALSE, val |-> ""]
EnvText       == [set |-> TRUE, unicode |-> TRUE, val |-> "v"]
EnvNotUnicode == [set |-> TRUE, unicode |-> FALSE, val |-> "0xFF"]
Environs == [EnvNames -> {EnvUnset, EnvText, EnvNotUnicode}]

RECURSIVE Flatten(_)
\* The values of the occurrences of a two-valued option, in order: what
\* args.values_of gives.
Flatten(pairs) ==
    IF pairs = <<>> THEN <<>>
    ELSE <<pairs[1][1], pairs[1][2]>> \o Flatten(Tail(pairs))

\* Every occurrence of --var and of --var-env carries exactly two values.
VarArgs    == { Flatten(q) : q \in SeqsUpTo(VarNames \X VarValues, MaxPairs) }
VarEnvArgs == { Flatten(q) : q \in SeqsUpTo(VarNames \X EnvNames, MaxPairs) }

\* std::env::var: NotPresent for a variable that is not set, NotUnicode for
\* one whose value is not valid Unicode, else the value.
std_env_var(environ, e) ==
    IF ~environ[e].set THEN [ok |-> FALSE, val |-> "", err |-> "NotPresent"]
    ELSE IF ~environ[e].unicode THEN [ok |-> FALSE, val |-> "", err |-> "NotUnicode"]
    ELSE [ok |-> TRUE, val |-> environ[e].val, err |-> ""]

\* Result::ok
result_ok(r) == IF r.ok THEN Some(r.val) ELSE None

\* HashMap::insert
Insert(res, k, v) == [n \in (DOMAIN res) \cup {k} |-> IF n = k THEN v ELSE res[n]]

\* HashMap::new
EmptyMap == [n \in {} |-> None]

VarsErr == [ok |-> FALSE, map |-> EmptyMap]

RECURSIVE VarsLoop(_, _)
\* The loop of starlark_vars over the values of --var.
VarsLoop(vals, res) ==
    IF Len(vals) < 2 THEN [ok |-> TRUE, map |-> res]
    ELSE IF vals[1] \in DOMAIN res THEN VarsErr
    ELSE VarsLoop(SubSeq(vals, 3, Len(vals)), Insert(res, vals[1], Some(vals[2])))

RECURSIVE VarsEnvLoop(_, _, _)
\* The loop of starlark_vars over the values of --var-env.
VarsEnvLoop(vals, res, environ) ==
    IF Len(vals) < 2 THEN [ok |-> TRUE, map |-> res]
    ELSE IF vals[1] \in DOMAIN res THEN VarsErr
    ELSE VarsEnvLoop(SubSeq(vals, 3, Len(vals)),
                     Insert(res, vals[1], result_ok(std_env_var(environ, vals[2]))),
                     environ)

RECURSIVE VarsEnvLoop_NoCheck(_, _, _)
\* The --var-env loop without its contains_key check: a later definition
\* overwrites an earlier one.
VarsEnvLoop_NoCheck(vals, res, environ) ==
    IF Len(vals) < 2 THEN [ok |-> TRUE, map |-> res]
    ELSE VarsEnvLoop_NoCheck(SubSeq(vals, 3, Len(vals)),
                             Insert(res, vals[1], result_ok(std_env_var(environ, vals[2]))),
                             environ)

\* A faulty variant of starlark_vars: --var-env names are not checked.
starlark_vars_NoEnvCheck(args) ==
    LET r == VarsLoop(args.vars, EmptyMap)
    IN  IF ~r.ok THEN VarsErr ELSE VarsEnvLoop_NoCheck(args.vars_env, r.map, args.environ)

\* starlark_vars: the VARS map, or an error.
starlark_vars(args) ==
    LET r == VarsLoop(args.vars, EmptyMap)
    IN  IF ~r.ok THEN VarsErr ELSE VarsEnvLoop(args.vars_env, r.map, args.environ)

\* The sub-commands of the application, and "none" for a command line
\* without one.
EnvCommands == {"build", "run", "run-build-script"}
PlainCommands == {"analyze", "cache-clear", "generate-python-embedding-artifacts",
                  "init-config-file", "list-targets", "init-rust-project",
                  "python-distribution-info", "python-distribution-licenses",
                  "rust-project-licensing"}
Commands == EnvCommands \cup PlainCommands
                \cup {"find-resources", "python-distribution-extract"}

\* The operation a sub-command's arm of run_cli invokes.
Operation(command) ==
    CASE command = "analyze" -> "tugger_binary_analysis::analyze_file"
      [] command = "build" -> "projectmgmt::build"
      [] command = "cache-clear" -> "projectmgmt::cache_clear"
      [] command = "find-resources" -> "projectmgmt::find_resources"
      [] command = "generate-python-embedding-artifacts"
            -> "projectmgmt::generate_python_embedding_artifacts"
      [] command = "init-config-file" -> "projectmgmt::init_config_file"
      [] command = "list-targets" -> "projectmgmt::list_targets"
      [] command = "init-rust-project" -> "projectmgmt::init_rust_project"
      [] command = "python-distribution-extract"
            -> "projectmgmt::python_distribution_extract"
      [] command = "python-distribution-info" -> "projectmgmt::python_distribution_info"
      [] command = "python-distribution-licenses"
            -> "projectmgmt::python_distribution_licenses"
      [] command = "run-build-script" -> "project_building::run_from_build"
      [] command = "run" -> "projectmgmt::run"
      [] command = "rust-project-licensing" -> "projectmgmt::rust_project_licensing"

\* starlark_vars was not called.
NoVars == [called |-> FALSE, ok |-> FALSE, map |-> EmptyMap]

\* An arm ends in an error of its own, without invoking its operation.
ArmErr(sv) == [svars |-> sv, ops |-> <<>>, result |-> "Err"]

\* An arm invokes its operation, whose result (opOk) is the arm's result.
\* analyze_file returns nothing and the arm returns Ok(()).
Invoke(command, sv, opOk) ==
    [svars |-> sv,
     ops |-> <<[op |-> Operation(command), ok |-> (opOk \/ command = "analyze")]>>,
     result |-> IF opOk \/ command = "analyze" THEN "Ok" ELSE "Err"]

\* A faulty variant of the python-distribution-extract arm: both options
\* together are let through.
python_distribution_extract_arm_AllowBoth(args, opOk) ==
    IF ~args.download_default /\ ~args.archive_path THEN ArmErr(NoVars)
    ELSE Invoke("python-distribution-extract", NoVars, opOk)

\* The "python-distribution-extract" arm of run_cli.
python_distribution_extract_arm(args, opOk) ==
    IF ~args.download_default /\ ~args.archive_path THEN ArmErr(NoVars)
    ELSE IF args.download_default /\ args.archive_path THEN ArmErr(NoVars)
    ELSE Invoke("python-distribution-extract", NoVars, opOk)

\* The "build", "run" and "run-build-script" arms of run_cli.
starlark_arm(command, args, opOk) ==
    LET r  == starlark_vars(args)
        sv == [called |-> TRUE, ok |-> r.ok, map |-> r.map]
    IN  IF ~r.ok THEN ArmErr(sv) ELSE Invoke(command, sv, opOk)

\* The "find-resources" arm of run_cli.
find_resources_arm(args, opOk) ==
    IF ~args.path /\ ~args.scan_distribution THEN ArmErr(NoVars)
    ELSE Invoke("find-resources", NoVars, opOk)

\* match command { ... } of run_cli.
match_command(command, args, opOk) ==
    IF command \in EnvCommands THEN starlark_arm(command, args, opOk)
    ELSE IF command = "find-resources" THEN find_resources_arm(args, opOk)
    ELSE IF command = "python-distribution-extract"
    THEN python_distribution_extract_arm(args, opOk)
    ELSE IF command \in PlainCommands THEN Invoke(command, NoVars, opOk)
    ELSE ArmErr(NoVars)

\* A faulty variant of system_rust_step: the error of unmanage_rust is dropped.
system_rust_step_IgnoreError(present, ok) ==
    IF present
    THEN [ops |-> <<[op |-> "unmanage_rust", ok |-> ok]>>, proceed |-> TRUE]
    ELSE [ops |-> <<>>, proceed |-> TRUE]

\* if matches.is_present("system_rust") { env.unmanage_rust()...? }
system_rust_step(present, ok) ==
    IF present
    THEN [ops |-> <<[op |-> "unmanage_rust", ok |-> ok]>>, proceed |-> ok]
    ELSE [ops |-> <<>>, proceed |-> TRUE]

\* run_cli ends in an error before it reaches the next step.
Fail(ops) ==
    run' = [run EXCEPT !.pc = "done", !.trace = run.trace \o ops, !.result = "Err"]

\* Environment::new()? and the parse of the command line.
EnvNew ==
    /\ run.pc = "start"
    /\ \E ok \in BOOLEAN :
         IF ok THEN run' = [run EXCEPT !.pc = "matched"] ELSE Fail(<<>>)
    /\ UNCHANGED <<handles, heap, allocLog, freeLog, badFree, decodeCalls, held, status,
                   fromCall, cIn, cOut, cli>>

\* The global options: logging, then --system-rust.
GlobalOpts ==
    /\ run.pc = "matched"
    /\ \E ok \in BOOLEAN :
         LET r == system_rust_step(cli.system_rust, ok)
         IN  IF r.proceed
             THEN run' = [run EXCEPT !.pc = "dispatch", !.trace = run.trace \o r.ops]
             ELSE Fail(r.ops)
    /\ UNCHANGED <<handles, heap, allocLog, freeLog, badFree, decodeCalls, held, status,
                   fromCall, cIn, cOut, cli>>

\* matches.subcommand() and the arm of the sub-command.
Dispatch ==
    /\ run.pc = "dispatch"
    /\ IF cli.command = "none"
       THEN Fail(<<>>)
       ELSE \E opOk \in BOOLEAN :
              LET r == match_command(cli.command, cli, opOk)
              IN  run' = [pc |-> "done",
                          trace |-> run.trace \o r.ops,
                          handlers |-> Append(run.handlers, cli.command),
                          svars |-> r.svars,
                          result |-> r.result]
    /\ UNCHANGED <<handles, heap, allocLog, freeLog, badFree, decodeCalls, held, status,
                   fromCall, cIn, cOut, cli>>

\* A command line without options: no variable is set in the environment.
NoEnviron == [e \in EnvNames |-> EnvUnset]
Args(sr, c) ==
    [system_rust |-> sr, command |-> c, vars |-> <<>>, vars_env |-> <<>>,
     environ |-> NoEnviron, download_default |-> FALSE, archive_path |-> FALSE,
     path |-> FALSE, scan_distribution |-> FALSE]

\* run_cli has not started.
NotRun == [pc |-> "start", trace |-> <<>>, handlers |-> <<>>, svars |-> NoVars,
           result |-> "none"]

CliIdle ==
    /\ cli = Args(FALSE, "none")
    /\ run = NotRun

HandleInit ==
    /\ handles = <<>>
    /\ heap = {}
    /\ allocLog = <<>>
    /\ freeLog = <<>>
    /\ badFree = FALSE
    /\ decodeCalls = 0
    /\ held = {}
    /\ status = "running"
    /\ fromCall = [n |-> 0, s |-> <<>>, called |-> FALSE, ptr |-> NULL, outcome |-> "none"]

\* No conversion has been called.
NoCall == [op |-> "none", calls |-> <<>>, prim |-> NoObj, outcome |-> "none",
           obj |-> NoObj, oom |-> FALSE]

ConvIdle ==
    /\ cIn = [family |-> "unix", native |-> <<>>, os |-> <<>>, locale |-> "UTF-8"]
    /\ cOut = NoCall

Init == HandleInit /\ ConvIdle /\ CliIdle

Next ==
    \/ \E s \in Strs : From(s)
    \/ \E h \in 1..MaxHandles : Borrow(h)
    \/ \E h \in 1..MaxHandles : Drop(h)

Spec == Init /\ [][Next]_vars

\* The host strings a conversion is called with, on either target family.
HostStrings ==
    { [family |-> "unix", native |-> b, os |-> b, locale |-> l] :
        b \in UnixStrings, l \in Locales }
    \cup
    { [family |-> "windows", native |-> w, os |-> OsString_from_wide(w), locale |-> "UTF-8"] :
        w \in WideStrings }

InitConv ==
    /\ HandleInit
    /\ cIn \in HostStrings
    /\ cOut = NoCall
    /\ CliIdle

NextConv ==
    \/ StrUnix
    \/ StrWindows
    \/ BytesUnix
    \/ BytesWindows

SpecConv == InitConv /\ [][NextConv]_vars

\* The command lines the parser accepts: --var and --var-env only with build,
\* run and run-build-script, --download-default and --archive-path only with
\* python-distribution-extract, a path and --scan-distribution only with
\* find-resources.
CommandLines ==
    { [Args(sr, c) EXCEPT !.vars = v, !.vars_env = ve, !.environ = e] :
        sr \in BOOLEAN, c \in EnvCommands, v \in VarArgs, ve \in VarEnvArgs, e \in Environs }
    \cup
    { [Args(sr, "python-distribution-extract")
          EXCEPT !.download_default = dd, !.archive_path = ap] :
        sr \in BOOLEAN, dd \in BOOLEAN, ap \in BOOLEAN }
    \cup
    { [Args(sr, "find-resources") EXCEPT !.path = pa, !.scan_distribution = sd] :
        sr \in BOOLEAN, pa \in BOOLEAN, sd \in BOOLEAN }
    \cup
    { Args(sr, c) : sr \in BOOLEAN, c \in PlainCommands \cup {"none"} }

InitCli ==
    /\ HandleInit
    /\ ConvIdle
    /\ cli \in CommandLines
    /\ run = NotRun

NextCli ==
    \/ EnvNew
    \/ GlobalOpts
    \/ Dispatch

SpecCli == InitCli /\ [][NextCli]_vars

(***************************************************************************)
(* Claims about OwnedPyStr, checked under Spec                             *)
(***************************************************************************)

AliveHandles == { h \in 1..Len(handles) : handles[h].state = "Alive" }
FreedHandles == { h \in 1..Len(handles) : handles[h].state = "Freed" }

\* The allocation-counting view of a state: one allocation per handle ever
\* constructed, one deallocation per destroyed handle, the allocated buffers
\* are exactly those of the alive handles, each owned by one handle, and no
\* deallocation ever got a pointer that was not allocated.
AllocFreeBalanced ==
    /\ Len(allocLog) = Len(handles)
    /\ Len(freeLog) = Cardinality(FreedHandles)
    /\ ~badFree
    /\ heap = { handles[h].data : h \in AliveHandles }
    /\ \A h1, h2 \in AliveHandles : h1 # h2 => handles[h1].data # handles[h2].data
    /\ (AliveHandles = {} => Len(allocLog) = Len(freeLog) /\ heap = {})

\* A step frees a buffer only by destroying the one handle that owns it, a
\* destroyed handle's buffer goes to PyMem_RawFree in that very step, and a
\* Freed handle stays Freed.
FreedAtDestruction ==
    /\ \A h \in FreedHandles : handles'[h].state = "Freed"
    /\ \A h \in AliveHandles :
          handles'[h].state = "Freed" => freeLog' = Append(freeLog, handles[h].data)
    /\ freeLog' # freeLog =>
          /\ Len(freeLog') = Len(freeLog) + 1
          /\ \E h \in AliveHandles :
                /\ handles'[h].state = "Freed"
                /\ \A g \in AliveHandles \ {h} : handles'[g].state = "Alive"

\* C1: every buffer returned by a successful Py_DecodeLocale is released
\* exactly once, by PyMem_RawFree at the destruction of the handle that owns
\* it: no double free, no buffer shared by two alive handles, Freed is final,
\* and N handles constructed and destroyed make N allocations and N frees.
C1_ReleasedExactlyOnce == [](AllocFreeBalanced) /\ [][FreedAtDestruction]_vars

\* C1 witness: two handles constructed and destroyed, the second one having
\* got the address the first one released.
C1_Witness ==
    /\ Len(handles) >= 2
    /\ AliveHandles = {}
    /\ Len(allocLog) = Len(handles)
    /\ Len(freeLog) = Len(handles)
    /\ allocLog[1] = allocLog[2]

\* The step is a call of OwnedPyStr::from.
FromStep == fromCall'.n # fromCall.n

\* C2: a construction from text with an embedded NUL fails at once: no
\* handle, no call of Py_DecodeLocale, no allocation and no deallocation.
C2_NulFailsBeforeDecode ==
    [][ (FromStep /\ HasNul(fromCall'.s)) =>
            /\ fromCall'.outcome = "panic_nul"
            /\ ~fromCall'.called
            /\ status' = "panicked"
            /\ handles' = handles
            /\ decodeCalls' = decodeCalls
            /\ allocLog' = allocLog
            /\ freeLog' = freeLog
            /\ heap' = heap ]_vars

\* C2 witness: with a handle alive, a construction from text holding a NUL
\* has panicked.
C2_Witness ==
    /\ fromCall.n >= 2
    /\ HasNul(fromCall.s)
    /\ fromCall.outcome = "panic_nul"
    /\ AliveHandles # {}

\* C3: when Py_DecodeLocale returns null the construction panics: no handle
\* is produced and PyMem_RawFree is not called, so never with a null pointer.
C3_NullDecodeIsFatal ==
    /\ [][ (FromStep /\ fromCall'.called /\ fromCall'.ptr = NULL) =>
            /\ fromCall'.outcome = "panic_null"
            /\ status' = "panicked"
            /\ handles' = handles
            /\ freeLog' = freeLog
            /\ heap' = heap ]_vars
    /\ [](\A i \in 1..Len(freeLog) : freeLog[i] # NULL)

\* C3 witness: Py_DecodeLocale was called, returned null, and the constructor
\* panicked, after an earlier handle had been constructed and destroyed.
C3_Witness ==
    /\ fromCall.called
    /\ fromCall.ptr = NULL
    /\ fromCall.outcome = "panic_null"
    /\ FreedHandles # {}

\* C4: an Alive handle holds a non-null pointer, the one its successful
\* Py_DecodeLocale call returned, and a handle's pointer never changes.
C4_AlivePointerValid ==
    /\ [](\A h \in AliveHandles :
            /\ handles[h].data # NULL
            /\ h <= Len(allocLog)
            /\ handles[h].data = allocLog[h]
            /\ handles[h].data \in heap)
    /\ [][\A h \in 1..Len(handles) : handles'[h].data = handles[h].data]_vars

\* C4 witness: two handles alive at once, and one destroyed before them.
C4_Witness ==
    /\ Cardinality(AliveHandles) >= 2
    /\ FreedHandles # {}

\* C5 as stated: no pointer obtained from as_wchar_ptr is held for a handle
\* that has been destroyed.
C5_NoPointerOutlivesHandle ==
    \A b \in held : handles[b.h].state # "Freed"

\* C5 as amended: as long as the handle is Alive, a pointer obtained from its
\* as_wchar_ptr is the handle's own non-null pointer and its buffer is still
\* allocated; the copy is a raw pointer and only a destruction of the handle
\* makes it dangle.
C5_BorrowValidWhileAlive ==
    /\ [](\A b \in held :
            handles[b.h].state = "Alive" =>
                /\ b.ptr = handles[b.h].data
                /\ b.ptr # NULL
                /\ b.ptr \in heap)
    /\ [][\A b \in held :
            (handles[b.h].state = "Alive" /\ b.ptr \in heap /\ b.ptr \notin heap')
                => handles'[b.h].state = "Freed"]_vars

\* C5 witness: a caller holds the pointer of a destroyed handle, and the
\* pointer of a handle that is still alive.
C5_Witness ==
    /\ \E b \in held : handles[b.h].state = "Freed"
    /\ \E b \in held : handles[b.h].state = "Alive"

(***************************************************************************)
(* Claims about the conversions, checked under SpecConv                    *)
(***************************************************************************)

\* The single foreign call of the conversion was fn(buf, len, errors), with
\* buf read up to len.
Called(fn, units, len, errors) ==
    /\ Len(cOut.calls) = 1
    /\ cOut.calls[1].fn = fn
    /\ cOut.calls[1].len = len
    /\ cOut.calls[1].errors = errors
    /\ Len(cOut.calls[1].buf) >= len
    /\ SubSeq(cOut.calls[1].buf, 1, len) = units

\* C6: osstring_to_str on unix is lossless: for host bytes B without a NUL
\* the decoder gets B with the length len(B) and the surrogateescape policy,
\* and encoding the returned text back gives exactly B, also for bytes the
\* active locale cannot decode (unless the runtime is out of memory).
C6_UnixTextRoundTrip ==
    (cOut.op = "str_unix" /\ ~HasNul(cIn.native) /\ ~cOut.oom) =>
        /\ Called("PyUnicode_DecodeLocaleAndSize", cIn.native, Len(cIn.native),
                  "surrogateescape")
        /\ cOut.outcome = "returned"
        /\ cOut.obj.kind = "str"
        /\ LocaleEncode(cOut.obj.val, cIn.locale) = cIn.native

\* C6 witness: a host string with decodable UTF-8 (C3 A9) and a lone FF was
\* converted in the UTF-8 locale: one code point E9 and one escape DCFF.
C6_Witness ==
    /\ cOut.op = "str_unix"
    /\ cIn.locale = "UTF-8"
    /\ cIn.native = <<195, 169, 255>>
    /\ cOut.outcome = "returned"
    /\ cOut.obj = PyStr(<<233, 56575>>)

\* C7: osstring_to_str on windows round-trips: PyUnicode_FromWideChar gets
\* exactly the units of W with the length len(W), and the units of the
\* returned text are exactly W, also with unpaired surrogates and zero units
\* (unless the runtime is out of memory).
C7_WindowsTextRoundTrip ==
    (cOut.op = "str_windows" /\ ~cOut.oom) =>
        /\ Called("PyUnicode_FromWideChar", cIn.native, Len(cIn.native), "")
        /\ cOut.calls[1].buf = cIn.native
        /\ cOut.outcome = "returned"
        /\ cOut.obj.kind = "str"
        /\ PyUnicode_AsWideChar(cOut.obj) = cIn.native

\* C7 witness: a low surrogate, a zero unit and a high surrogate, none paired,
\* came back as three code points.
C7_Witness ==
    /\ cOut.op = "str_windows"
    /\ cIn.native = <<56320, 0, 55296>>
    /\ cOut.outcome = "returned"
    /\ cOut.obj = PyStr(<<56320, 0, 55296>>)

\* C8: osstring_to_bytes returns the native representation byte for byte: on
\* unix the len(B) bytes of B, on windows 2 x len(W) bytes, the low and the
\* high byte of each unit in turn (unless the runtime is out of memory).
C8_BytesIdentical ==
    /\ (cOut.op = "bytes_unix" /\ ~cOut.oom) =>
          /\ cOut.outcome = "returned"
          /\ cOut.obj.kind = "bytes"
          /\ Len(cOut.obj.val) = Len(cIn.native)
          /\ cOut.obj.val = cIn.native
    /\ (cOut.op = "bytes_windows" /\ ~cOut.oom) =>
          /\ cOut.outcome = "returned"
          /\ cOut.obj.kind = "bytes"
          /\ Len(cOut.obj.val) = 2 * Len(cIn.native)
          /\ \A i \in 1..Len(cIn.native) :
                /\ cOut.obj.val[2 * i - 1] = cIn.native[i] % 256
                /\ cOut.obj.val[2 * i] = cIn.native[i] \div 256

\* C8 witness: the windows string <'a', D800, DC00> became six bytes, which
\* are not its UTF-8 (61 F0 90 80 80) nor any other text encoding of it.
C8_Witness ==
    /\ cOut.op = "bytes_windows"
    /\ cIn.native = <<97, 55296, 56320>>
    /\ cOut.outcome = "returned"
    /\ cOut.obj = PyBytes(<<97, 0, 0, 216, 0, 220>>)

\* C9: osstring_to_str on unix panics on a host string with an embedded NUL
\* before any foreign call: PyUnicode_DecodeLocaleAndSize is not called and
\* no object is returned.
C9_UnixTextNulFailsFirst ==
    (cOut.op = "str_unix" /\ HasNul(cIn.native)) =>
        /\ cOut.outcome = "panic_nul"
        /\ cOut.calls = <<>>
        /\ cOut.obj = NoObj

\* C9 witness: the host string <'a', NUL, FF> made the conversion panic.
C9_Witness ==
    /\ cOut.op = "str_unix"
    /\ cIn.native = <<97, 0, 255>>
    /\ cOut.outcome = "panic_nul"

\* C10 as stated: when the decode primitive returns null, the text
\* conversion halts; it never returns a null object to its caller.
C10_NullDecodeHalts ==
    (cOut.op = "str_unix" /\ cOut.calls # <<>> /\ cOut.prim = NullObj) =>
        /\ cOut.outcome = "panic"
        /\ cOut.obj # NullObj

\* C11: osstring_to_bytes (unix and windows) and osstring_to_str (windows)
\* are total: for every host string, also one with NUL bytes or zero units,
\* they do not fail on the string, call no decode primitive, and give the
\* runtime constructor the whole buffer with its full length; they return an
\* object unless the runtime is out of memory.
C11_TotalConversions ==
    (cOut.op \in {"bytes_unix", "bytes_windows", "str_windows"}) =>
        /\ cOut.outcome # "panic_nul"
        /\ Len(cOut.calls) = 1
        /\ cOut.calls[1].fn # "PyUnicode_DecodeLocaleAndSize"
        /\ cOut.calls[1].fn = (IF cOut.op = "str_windows" THEN "PyUnicode_FromWideChar"
                               ELSE "PyBytes_FromStringAndSize")
        /\ cOut.calls[1].len = (IF cOut.op = "bytes_windows" THEN 2 * Len(cIn.native)
                                ELSE Len(cIn.native))
        /\ cOut.calls[1].len = Len(cOut.calls[1].buf)
        /\ (~cOut.oom =>
              /\ cOut.outcome = "returned"
              /\ cOut.obj.kind = (IF cOut.op = "str_windows" THEN "str" ELSE "bytes"))

\* C11 witness: the unix host string <NUL, FF, NUL> became a bytes object of
\* the same three bytes.
C11_Witness ==
    /\ cOut.op = "bytes_unix"
    /\ cIn.native = <<0, 255, 0>>
    /\ cOut.outcome = "returned"
    /\ cOut.obj = PyBytes(<<0, 255, 0>>)

(***************************************************************************)
(* Claims about cli.rs, checked under SpecCli                              *)
(***************************************************************************)

\* The first value of every occurrence: the variable names given.
NamesOf(vals) == [i \in 1..(Len(vals) \div 2) |-> vals[2 * i - 1]]
SecondsOf(vals) == [i \in 1..(Len(vals) \div 2) |-> vals[2 * i]]
AllNames == NamesOf(cli.vars) \o NamesOf(cli.vars_env)
DefinedTwice == \E i, j \in 1..Len(AllNames) : i < j /\ AllNames[i] = AllNames[j]

\* C12: starlark_vars returns an error, and no map, when a name is given
\* twice with --var, twice with --var-env, or once with each; otherwise it
\* returns a map with exactly one entry per name given.
C12_DuplicateVarIsError ==
    run.svars.called =>
        /\ run.svars.ok <=> ~DefinedTwice
        /\ run.svars.ok =>
              /\ DOMAIN run.svars.map = { AllNames[i] : i \in 1..Len(AllNames) }
              /\ Cardinality(DOMAIN run.svars.map) = Len(AllNames)
        /\ ~run.svars.ok =>
              /\ run.svars.map = EmptyMap
              /\ run.result = "Err"

\* C12 witness: "a" given with --var and again as the second --var-env.
C12_Witness ==
    /\ run.svars.called
    /\ cli.vars = <<"a", "x">>
    /\ cli.vars_env = <<"b", "E", "a", "F">>
    /\ ~run.svars.ok
    /\ run.result = "Err"

\* C13 as stated: for --var-env <name> <env> the map holds the value of <env>
\* when it is set and None when it is not set; for --var <name> <value> it
\* holds Some(<value>).
C13_EnvValueStored ==
    (run.svars.called /\ run.svars.ok) =>
        /\ \A i \in 1..Len(NamesOf(cli.vars)) :
              run.svars.map[NamesOf(cli.vars)[i]] = Some(SecondsOf(cli.vars)[i])
        /\ \A i \in 1..Len(NamesOf(cli.vars_env)) :
              LET e == cli.environ[SecondsOf(cli.vars_env)[i]]
              IN  run.svars.map[NamesOf(cli.vars_env)[i]]
                    = (IF e.set THEN Some(e.val) ELSE None)

ExtractOp == "projectmgmt::python_distribution_extract"
ExtractInvoked == \E i \in 1..Len(run.trace) : run.trace[i].op = ExtractOp
ExactlyOneSource == cli.download_default # cli.archive_path
ArmRan(command) == \E i \in 1..Len(run.handlers) : run.handlers[i] = command

\* C14: the python-distribution-extract arm invokes the extraction if and
\* only if exactly one of --download-default and --archive-path is given;
\* with neither or both it returns an error and the extraction is never
\* invoked.
C14_ExtractIffExactlyOne ==
    /\ ExtractInvoked =>
          /\ cli.command = "python-distribution-extract"
          /\ ExactlyOneSource
    /\ ArmRan("python-distribution-extract") =>
          /\ ExtractInvoked <=> ExactlyOneSource
          /\ ~ExactlyOneSource => run.result = "Err"

\* C14 witness: with --system-rust handled, the arm got both options and
\* returned an error without invoking the extraction.
C14_Witness ==
    /\ ArmRan("python-distribution-extract")
    /\ cli.download_default /\ cli.archive_path
    /\ cli.system_rust
    /\ run.result = "Err"
    /\ ~ExtractInvoked

UnmanageCalls == { i \in 1..Len(run.trace) : run.trace[i].op = "unmanage_rust" }
OperationCalls == { i \in 1..Len(run.trace) : run.trace[i].op # "unmanage_rust" }

\* What holds of every state of a run: at most one arm and one operation; an
\* arm or operation only after the global options, with a successful
\* unmanage_rust first when --system-rust is given; a failed unmanage_rust or
\* a failed starlark_vars ends the run in an error with no operation.
OneHandlerAfterGlobals ==
    /\ Len(run.handlers) <= 1
    /\ Cardinality(OperationCalls) <= 1
    /\ Cardinality(UnmanageCalls) <= 1
    /\ ~cli.system_rust => UnmanageCalls = {}
    /\ (run.handlers # <<>> \/ OperationCalls # {}) =>
          /\ cli.system_rust =>
                (Len(run.trace) >= 1 /\ run.trace[1] = [op |-> "unmanage_rust", ok |-> TRUE])
          /\ \A i \in OperationCalls :
                /\ run.handlers = <<cli.command>>
                /\ run.trace[i].op = Operation(cli.command)
                /\ \A j \in UnmanageCalls : j < i
    /\ (\E i \in UnmanageCalls : ~run.trace[i].ok) =>
          /\ run.pc = "done"
          /\ run.result = "Err"
          /\ run.handlers = <<>>
          /\ OperationCalls = {}
    /\ (run.svars.called /\ ~run.svars.ok) =>
          /\ cli.command \in EnvCommands
          /\ run.result = "Err"
          /\ OperationCalls = {}

\* An arm runs, and an operation is invoked, only in a step that starts after
\* the global options were handled, and that step ends the run.
HandlerStepAfterGlobals ==
    (\/ run'.handlers # run.handlers
     \/ \E i \in 1..Len(run'.trace) :
            i > Len(run.trace) /\ run'.trace[i].op # "unmanage_rust") =>
        /\ run.pc = "dispatch"
        /\ run'.pc = "done"

\* C15: in run_cli at most one sub-command handler is invoked per run, and
\* only after the global options succeeded: with --system-rust,
\* unmanage_rust completes successfully before any handler; if unmanage_rust
\* fails, or starlark_vars fails for build, run or run-build-script, the run
\* ends in an error without invoking the project operation.
C15_OneHandlerAfterGlobals ==
    [](OneHandlerAfterGlobals) /\ [][HandlerStepAfterGlobals]_vars

\* C15 witness: --system-rust was handled successfully, then the build arm
\* failed in starlark_vars and no operation was invoked.
C15_Witness ==
    /\ cli.system_rust
    /\ cli.command = "build"
    /\ run.trace = <<[op |-> "unmanage_rust", ok |-> TRUE]>>
    /\ run.handlers = <<"build">>
    /\ run.svars.called /\ ~run.svars.ok
    /\ run.result = "Err"

====
